---- MODULE Spec2Model ----
(***************************************************************************)
(* A model of gobreaker.go: the CircuitBreaker state machine, its request  *)
(* gate (beforeRequest / afterRequest), Execute and the two-step Allow.    *)
(*                                                                         *)
(* Time is a natural number; the zero time.Time is 0 and time.Now() is     *)
(* always at least 1, so t.IsZero() is t = 0 and a.Before(b) is a < b.      *)
(* Function-valued settings are modelled by a tag naming the function.     *)
(* The counters are uint32/uint64 in the source; the bounds below keep     *)
(* them far from wrapping, so they are modelled as naturals.               *)
(***************************************************************************)
EXTENDS Integers, Sequences, FiniteSets, TLC

\* ---- bounds of the model ----
MaxTime == 4
MaxGen == 4
MaxCount == 6

\* ---- State (gobreaker.go:20-24) ----
StateClosed == 0
StateHalfOpen == 1
StateOpen == 2

\* ---- errors (gobreaker.go:37-42); nil is the absent error ----
nil == "nil"
ErrTooManyRequests == "too many requests"
ErrOpenState == "circuit breaker is open"

\* the zero value of time.Time
ZeroTime == 0

\* ---- Counts (gobreaker.go:64-94) ----
ZeroCounts ==
  [Requests |-> 0, TotalSuccesses |-> 0, TotalFailures |-> 0,
   ConsecutiveSuccesses |-> 0, ConsecutiveFailures |-> 0]

countsOnRequest(c) == [c EXCEPT !.Requests = @ + 1]

\* mutant: a success leaves the run of failures standing
countsOnSuccess_failuresKept(c) ==
  [c EXCEPT !.TotalSuccesses = @ + 1,
            !.ConsecutiveSuccesses = @ + 1]

countsOnSuccess(c) ==
  [c EXCEPT !.TotalSuccesses = @ + 1,
            !.ConsecutiveSuccesses = @ + 1,
            !.ConsecutiveFailures = 0]

\* mutant: a failure is not added to TotalFailures
countsOnFailure_totalUncounted(c) ==
  [c EXCEPT !.ConsecutiveFailures = @ + 1,
            !.ConsecutiveSuccesses = 0]

countsOnFailure(c) ==
  [c EXCEPT !.TotalFailures = @ + 1,
            !.ConsecutiveFailures = @ + 1,
            !.ConsecutiveSuccesses = 0]

countsClear(c) ==
  [c EXCEPT !.Requests = 0, !.TotalSuccesses = 0, !.TotalFailures = 0,
            !.ConsecutiveSuccesses = 0, !.ConsecutiveFailures = 0]

\* ---- defaults (gobreaker.go:210-219) ----
defaultInterval == 0
defaultTimeout == 60

\* mutant: the default predicate trips one failure early
defaultReadyToTrip_atFive(counts) == counts.ConsecutiveFailures >= 5

defaultReadyToTrip(counts) == counts.ConsecutiveFailures > 5

defaultIsSuccessful(err) == err = nil

\* ---- caller-supplied functions: the inputs the model draws from ----
\* A ReadyToTrip a caller may pass in Settings: trip on the 2nd failure of a window.
customReadyToTrip(counts) == counts.TotalFailures >= 2

\* An IsSuccessful a caller may pass in Settings: "errSoft" does not count as a failure.
customIsSuccessful(err) == err \in {nil, "errSoft"}

\* a func-typed field is a tag: "nil", or the name of the function it holds
readyToTrip(cb, counts) ==
  IF cb.readyToTrip = "defaultReadyToTrip"
  THEN defaultReadyToTrip(counts)
  ELSE customReadyToTrip(counts)

isSuccessful(cb, err) ==
  IF cb.isSuccessful = "defaultIsSuccessful"
  THEN defaultIsSuccessful(err)
  ELSE customIsSuccessful(err)

\* ---- NewCircuitBreaker (gobreaker.go:161-201) ----
\* mutant: a Closed window gets an expiry whether or not an interval is set
toNewGeneration_intervalIgnored(cb, now) ==
  LET c1 == [cb EXCEPT !.generation = @ + 1, !.counts = countsClear(@)]
  IN  IF c1.state = StateClosed
      THEN [c1 EXCEPT !.expiry = now + c1.interval]
      ELSE IF c1.state = StateOpen
           THEN [c1 EXCEPT !.expiry = now + c1.timeout]
           ELSE [c1 EXCEPT !.expiry = ZeroTime]

\* mutant: a new generation starts with the counts of the one before
toNewGeneration_countsKept(cb, now) ==
  LET c1 == [cb EXCEPT !.generation = @ + 1]
  IN  IF c1.state = StateClosed
      THEN IF c1.interval = 0
           THEN [c1 EXCEPT !.expiry = ZeroTime]
           ELSE [c1 EXCEPT !.expiry = now + c1.interval]
      ELSE IF c1.state = StateOpen
           THEN [c1 EXCEPT !.expiry = now + c1.timeout]
           ELSE [c1 EXCEPT !.expiry = ZeroTime]

toNewGeneration(cb, now) ==
  LET c1 == [cb EXCEPT !.generation = @ + 1, !.counts = countsClear(@)]
  IN  IF c1.state = StateClosed
      THEN IF c1.interval = 0
           THEN [c1 EXCEPT !.expiry = ZeroTime]
           ELSE [c1 EXCEPT !.expiry = now + c1.interval]
      ELSE IF c1.state = StateOpen
           THEN [c1 EXCEPT !.expiry = now + c1.timeout]
           ELSE [c1 EXCEPT !.expiry = ZeroTime]

NewCircuitBreaker(st, now) ==
  toNewGeneration(
    [name          |-> st.Name,
     onStateChange |-> st.OnStateChange,
     maxRequests   |-> IF st.MaxRequests = 0 THEN 1 ELSE st.MaxRequests,
     interval      |-> IF st.Interval <= 0 THEN defaultInterval ELSE st.Interval,
     timeout       |-> IF st.Timeout <= 0 THEN defaultTimeout ELSE st.Timeout,
     readyToTrip   |-> IF st.ReadyToTrip = "nil" THEN "defaultReadyToTrip" ELSE st.ReadyToTrip,
     isSuccessful  |-> IF st.IsSuccessful = "nil" THEN "defaultIsSuccessful" ELSE st.IsSuccessful,
     mutex         |-> "unlocked",
     state         |-> StateClosed,
     generation    |-> 0,
     counts        |-> ZeroCounts,
     expiry        |-> ZeroTime],
    now)

\* ---- cb.mutex (gobreaker.go:145), a sync.Mutex: Lock() returns once it is free ----
mutexLock(w) == [w EXCEPT !.cb.mutex = "locked"]

mutexUnlock(w) == [w EXCEPT !.cb.mutex = "unlocked"]

\* ---- the state machine; w = [cb |-> the breaker, sink |-> the calls made to onStateChange] ----
\* mutant: the previous state is read after the new one is stored
setState_prevReadLate(w, state, now) ==
  IF w.cb.state = state
  THEN w
  ELSE LET cb1 == toNewGeneration([w.cb EXCEPT !.state = state], now)
           prev == cb1.state
       IN  [cb   |-> cb1,
            sink |-> IF cb1.onStateChange # "nil"
                     THEN Append(w.sink, <<cb1.name, prev, state>>)
                     ELSE w.sink]

setState(w, state, now) ==
  IF w.cb.state = state
  THEN w
  ELSE LET prev == w.cb.state
           cb1  == toNewGeneration([w.cb EXCEPT !.state = state], now)
       IN  [cb   |-> cb1,
            sink |-> IF cb1.onStateChange # "nil"
                     THEN Append(w.sink, <<cb1.name, prev, state>>)
                     ELSE w.sink]

\* mutant: the Open expiry compared the wrong way round
currentState_reversed(w, now) ==
  IF w.cb.state = StateClosed
  THEN IF w.cb.expiry # ZeroTime /\ w.cb.expiry < now
       THEN [w EXCEPT !.cb = toNewGeneration(w.cb, now)]
       ELSE w
  ELSE IF w.cb.state = StateOpen
       THEN IF now < w.cb.expiry
            THEN setState(w, StateHalfOpen, now)
            ELSE w
       ELSE w

\* mutant: an Open breaker turns HalfOpen at the first call, timeout or not
currentState_openNeverWaits(w, now) ==
  IF w.cb.state = StateClosed
  THEN IF w.cb.expiry # ZeroTime /\ w.cb.expiry < now
       THEN [w EXCEPT !.cb = toNewGeneration(w.cb, now)]
       ELSE w
  ELSE IF w.cb.state = StateOpen
       THEN setState(w, StateHalfOpen, now)
       ELSE w

\* mutant: a HalfOpen breaker falls back to Open once the clock is past its expiry
currentState_halfOpenTimesOut(w, now) ==
  IF w.cb.state = StateClosed
  THEN IF w.cb.expiry # ZeroTime /\ w.cb.expiry < now
       THEN [w EXCEPT !.cb = toNewGeneration(w.cb, now)]
       ELSE w
  ELSE IF w.cb.state = StateOpen
       THEN IF w.cb.expiry < now
            THEN setState(w, StateHalfOpen, now)
            ELSE w
       ELSE IF w.cb.expiry < now
            THEN setState(w, StateOpen, now)
            ELSE w

currentState(w, now) ==
  IF w.cb.state = StateClosed
  THEN IF w.cb.expiry # ZeroTime /\ w.cb.expiry < now
       THEN [w EXCEPT !.cb = toNewGeneration(w.cb, now)]
       ELSE w
  ELSE IF w.cb.state = StateOpen
       THEN IF w.cb.expiry < now
            THEN setState(w, StateHalfOpen, now)
            ELSE w
       ELSE w

\* mutant: a success reported while Closed is not counted
onSuccess_closedUncounted(w, state, now) ==
  IF state = StateClosed
  THEN w
  ELSE IF state = StateHalfOpen
       THEN LET w1 == [w EXCEPT !.cb.counts = countsOnSuccess(@)]
            IN  IF w1.cb.counts.ConsecutiveSuccesses >= w1.cb.maxRequests
                THEN setState(w1, StateClosed, now)
                ELSE w1
       ELSE w

\* mutant: recovery needs one success more than maxRequests
onSuccess_offByOne(w, state, now) ==
  IF state = StateClosed
  THEN [w EXCEPT !.cb.counts = countsOnSuccess(@)]
  ELSE IF state = StateHalfOpen
       THEN LET w1 == [w EXCEPT !.cb.counts = countsOnSuccess(@)]
            IN  IF w1.cb.counts.ConsecutiveSuccesses > w1.cb.maxRequests
                THEN setState(w1, StateClosed, now)
                ELSE w1
       ELSE w

onSuccess(w, state, now) ==
  IF state = StateClosed
  THEN [w EXCEPT !.cb.counts = countsOnSuccess(@)]
  ELSE IF state = StateHalfOpen
       THEN LET w1 == [w EXCEPT !.cb.counts = countsOnSuccess(@)]
            IN  IF w1.cb.counts.ConsecutiveSuccesses >= w1.cb.maxRequests
                THEN setState(w1, StateClosed, now)
                ELSE w1
       ELSE w

\* mutant: the trip predicate is asked before the failure is counted
onFailure_tripBeforeCount(w, state, now) ==
  IF state = StateClosed
  THEN IF readyToTrip(w.cb, w.cb.counts)
       THEN setState(w, StateOpen, now)
       ELSE [w EXCEPT !.cb.counts = countsOnFailure(@)]
  ELSE IF state = StateHalfOpen
       THEN setState(w, StateOpen, now)
       ELSE w

\* mutant: the trip writes the Open state into the window that is running
onFailure_tripKeepsWindow(w, state, now) ==
  IF state = StateClosed
  THEN LET w1 == [w EXCEPT !.cb.counts = countsOnFailure(@)]
       IN  IF readyToTrip(w1.cb, w1.cb.counts)
           THEN [w1 EXCEPT !.cb.state = StateOpen, !.cb.expiry = now + w1.cb.timeout]
           ELSE w1
  ELSE IF state = StateHalfOpen
       THEN setState(w, StateOpen, now)
       ELSE w

onFailure(w, state, now) ==
  IF state = StateClosed
  THEN LET w1 == [w EXCEPT !.cb.counts = countsOnFailure(@)]
       IN  IF readyToTrip(w1.cb, w1.cb.counts)
           THEN setState(w1, StateOpen, now)
           ELSE w1
  ELSE IF state = StateHalfOpen
       THEN setState(w, StateOpen, now)
       ELSE w

\* ---- the request gate ----
\* mutant: the half-open quota lets one request too many through
beforeRequest_offByOne(w, now) ==
  LET w1 == currentState(mutexLock(w), now)
      state == w1.cb.state
      generation == w1.cb.generation
  IN  IF state = StateOpen
      THEN [w |-> mutexUnlock(w1), generation |-> generation, err |-> ErrOpenState]
      ELSE IF state = StateHalfOpen /\ w1.cb.counts.Requests > w1.cb.maxRequests
           THEN [w |-> mutexUnlock(w1), generation |-> generation, err |-> ErrTooManyRequests]
           ELSE [w |-> mutexUnlock([w1 EXCEPT !.cb.counts = countsOnRequest(@)]),
                 generation |-> generation, err |-> nil]

\* mutant: an admission returns with the mutex still held, to be released after req()
beforeRequest_lockKept(w, now) ==
  LET w1 == currentState(mutexLock(w), now)
      state == w1.cb.state
      generation == w1.cb.generation
  IN  IF state = StateOpen
      THEN [w |-> mutexUnlock(w1), generation |-> generation, err |-> ErrOpenState]
      ELSE IF state = StateHalfOpen /\ w1.cb.counts.Requests >= w1.cb.maxRequests
           THEN [w |-> mutexUnlock(w1), generation |-> generation, err |-> ErrTooManyRequests]
           ELSE [w |-> [w1 EXCEPT !.cb.counts = countsOnRequest(@)],
                 generation |-> generation, err |-> nil]

\* mutant: a request turned away by the HalfOpen quota is counted all the same
beforeRequest_rejectionCounted(w, now) ==
  LET w1 == currentState(mutexLock(w), now)
      state == w1.cb.state
      generation == w1.cb.generation
  IN  IF state = StateOpen
      THEN [w |-> mutexUnlock(w1), generation |-> generation, err |-> ErrOpenState]
      ELSE IF state = StateHalfOpen /\ w1.cb.counts.Requests >= w1.cb.maxRequests
           THEN [w |-> mutexUnlock([w1 EXCEPT !.cb.counts = countsOnRequest(@)]),
                 generation |-> generation, err |-> ErrTooManyRequests]
           ELSE [w |-> mutexUnlock([w1 EXCEPT !.cb.counts = countsOnRequest(@)]),
                 generation |-> generation, err |-> nil]

\* beforeRequest returns (generation, err); w is the world it leaves behind
beforeRequest(w, now) ==
  LET w1 == currentState(mutexLock(w), now)
      state == w1.cb.state
      generation == w1.cb.generation
  IN  IF state = StateOpen
      THEN [w |-> mutexUnlock(w1), generation |-> generation, err |-> ErrOpenState]
      ELSE IF state = StateHalfOpen /\ w1.cb.counts.Requests >= w1.cb.maxRequests
           THEN [w |-> mutexUnlock(w1), generation |-> generation, err |-> ErrTooManyRequests]
           ELSE [w |-> mutexUnlock([w1 EXCEPT !.cb.counts = countsOnRequest(@)]),
                 generation |-> generation, err |-> nil]

\* mutant: the report is applied whatever generation it carries
afterRequest_noGenerationCheck(w, before, success, now) ==
  LET w1 == currentState(mutexLock(w), now)
      state == w1.cb.state
  IN  IF success
      THEN mutexUnlock(onSuccess(w1, state, now))
      ELSE mutexUnlock(onFailure(w1, state, now))

afterRequest(w, before, success, now) ==
  LET w1 == currentState(mutexLock(w), now)
      state == w1.cb.state
      generation == w1.cb.generation
  IN  IF generation # before
      THEN mutexUnlock(w1)
      ELSE IF success
           THEN mutexUnlock(onSuccess(w1, state, now))
           ELSE mutexUnlock(onFailure(w1, state, now))

\* ---- State() and Counts() (gobreaker.go:228-245) ----
StateOf(w, now) ==
  LET w1 == currentState(mutexLock(w), now)
  IN  [w |-> mutexUnlock(w1), state |-> w1.cb.state]

CountsOf(w) ==
  LET w1 == mutexLock(w) IN [w |-> mutexUnlock(w1), counts |-> w1.cb.counts]


\* ---- Execute (gobreaker.go:253-273), one operator per path through it ----
\* recover() in the deferred function: the value the panic carried. A build with the
\* go1.21 semantics turns panic(nil) into a *runtime.PanicNilError; an older build
\* (or GODEBUG=panicnil=1) makes recover() return nil for it.
recoverValues(e) == IF e = nil THEN {nil, "PanicNilError"} ELSE {e}

\* lines 254-257: the gate; on rejection Execute returns (nil, err) at once
ExecuteBefore(w, now) ==
  LET r == beforeRequest(w, now)
  IN  [w |-> r.w, generation |-> r.generation, err |-> r.err,
       calls |-> IF r.err # nil THEN 0 ELSE 1,
       ret |-> IF r.err # nil THEN <<"return", nil, r.err>> ELSE <<>>]

\* mutant: the outcome is classified by err == nil, whatever IsSuccessful was set
ExecuteReturned_ignoresClassifier(w, generation, result, err, now) ==
  LET success == defaultIsSuccessful(err)
  IN  [w |-> afterRequest(w, generation, success, now),
       reports |-> << <<generation, success>> >>,
       ret |-> <<"return", result, err>>]

\* lines 268-272: req() returned (result, err)
ExecuteReturned(w, generation, result, err, now) ==
  LET success == isSuccessful(w.cb, err)
  IN  [w |-> afterRequest(w, generation, success, now),
       reports |-> << <<generation, success>> >>,
       ret |-> <<"return", result, err>>]

\* lines 259-265: req() panicked and the deferred function recovered e
ExecuteRecovered(w, generation, e, now) ==
  IF e # nil
  THEN [w |-> afterRequest(w, generation, FALSE, now),
        reports |-> << <<generation, FALSE>> >>,
        ret |-> <<"panic", e>>]
  ELSE [w |-> w, reports |-> <<>>, ret |-> <<"return", nil, nil>>]

\* ---- Allow (gobreaker.go:293-302) and the callback it returns ----
Allow(w, now) ==
  LET r == beforeRequest(w, now)
  IN  [w |-> r.w, generation |-> r.generation, err |-> r.err]

done(w, generation, success, now) == afterRequest(w, generation, success, now)

\* ---- the state of the model ----
VARIABLES
  facade,    \* "CircuitBreaker" or "TwoStepCircuitBreaker": which constructor made the breaker
  w,         \* [cb |-> the CircuitBreaker struct, sink |-> the onStateChange calls so far]
  now,       \* the clock time.Now() reads
  pc,        \* per caller: "idle", "inReq" (inside req()), "allowed" (holds an uncalled done)
  tok,       \* per caller: the generation its admission returned, while it still holds it (else 0)
  spent,     \* per caller: 1 when it has called the done callback it holds once (it drops it after a 2nd call)
  last,      \* the API call that completed last and what it gave back
  openedAt,  \* history: the time of the latest change to StateOpen (0 when not open)
  ledger     \* history: what the callers did in the window of the latest admission

vars == <<facade, w, now, pc, tok, spent, last, openedAt, ledger>>

Callers == {"c1", "c2"}

\* the guarded operation's outcomes: it returns (result, err) or it panics with a value
OpReturns == {<<"r0", nil>>, <<"r1", "errSoft">>, <<nil, "errHard">>}
PanicValues == {"boom", nil}

\* the Settings the breaker is constructed with
SettingsSet ==
  { [Name |-> "cb", MaxRequests |-> 0, Interval |-> 0, Timeout |-> 1,
     ReadyToTrip |-> "nil", OnStateChange |-> "onStateChange", IsSuccessful |-> "nil"],
    [Name |-> "cb", MaxRequests |-> 2, Interval |-> 2, Timeout |-> 1,
     ReadyToTrip |-> "customReadyToTrip", OnStateChange |-> "onStateChange",
     IsSuccessful |-> "customIsSuccessful"],
    [Name |-> "cb", MaxRequests |-> 2, Interval |-> 0, Timeout |-> 2,
     ReadyToTrip |-> "customReadyToTrip", OnStateChange |-> "nil", IsSuccessful |-> "nil"] }

NoEvent ==
  [ev |-> "New", gen |-> 0, err |-> nil, out |-> <<>>, ret |-> <<>>,
   reports |-> <<>>, calls |-> 0, state |-> StateClosed, counts |-> ZeroCounts]

NoLedger == [gen |-> 0, admitted |-> 0, successes |-> 0, failures |-> 0, irregular |-> FALSE]

\* the callers' own tally, kept for the window of the latest admission
LedgerAdmit(l, gen) ==
  IF l.gen = gen
  THEN [l EXCEPT !.admitted = @ + 1]
  ELSE [NoLedger EXCEPT !.gen = gen, !.admitted = 1]

LedgerReport(l, gen, success) ==
  IF l.gen # gen THEN l
  ELSE IF success THEN [l EXCEPT !.successes = @ + 1]
       ELSE [l EXCEPT !.failures = @ + 1]

LedgerIrregular(l, gen) ==
  IF l.gen # gen THEN l ELSE [l EXCEPT !.irregular = TRUE]

\* the tally of a window that is no longer the current one is forgotten
LedgerOf(l, w2) == IF l.gen # w2.cb.generation THEN NoLedger ELSE l

Init ==
  /\ facade \in {"CircuitBreaker", "TwoStepCircuitBreaker"}
  /\ now = 1
  /\ \E st \in SettingsSet : w = [cb |-> NewCircuitBreaker(st, 1), sink |-> <<>>]
  /\ pc = [c \in Callers |-> "idle"]
  /\ tok = [c \in Callers |-> 0]
  /\ spent = [c \in Callers |-> 0]
  /\ last = NoEvent
  /\ openedAt = 0
  /\ ledger = NoLedger

\* what every API call does to the world, the event record and the history
Completes(w2, ev) ==
  /\ w' = w2
  /\ last' = ev
  /\ openedAt' = IF w2.cb.state # StateOpen THEN 0
                 ELSE IF w.cb.state # StateOpen THEN now ELSE openedAt

\* cb.mutex.Lock() at the head of a handler returns only when the mutex is free
MutexFree == w.cb.mutex = "unlocked"

GenOK == w.cb.generation < MaxGen
AdmitOK == GenOK /\ w.cb.counts.Requests < MaxCount
ReportOK == GenOK /\ w.cb.counts.TotalSuccesses + w.cb.counts.TotalFailures < MaxCount

Tick ==
  /\ now < MaxTime
  /\ now' = now + 1
  /\ UNCHANGED <<facade, w, pc, tok, spent, last, openedAt, ledger>>

State ==
  /\ MutexFree
  /\ GenOK
  /\ LET r == StateOf(w, now)
     IN  /\ Completes(r.w, [NoEvent EXCEPT !.ev = "State", !.state = r.state])
         /\ ledger' = LedgerOf(ledger, r.w)
  /\ UNCHANGED <<facade, now, pc, tok, spent>>

Counts ==
  /\ MutexFree
  /\ GenOK
  /\ LET r == CountsOf(w)
     IN  /\ Completes(r.w, [NoEvent EXCEPT !.ev = "Counts", !.counts = r.counts])
         /\ ledger' = LedgerOf(ledger, r.w)
  /\ UNCHANGED <<facade, now, pc, tok, spent>>

Execute(c) ==
  /\ facade = "CircuitBreaker"
  /\ pc[c] = "idle"
  /\ MutexFree
  /\ AdmitOK
  /\ LET r == ExecuteBefore(w, now)
     IN  /\ Completes(r.w, [NoEvent EXCEPT !.ev = IF r.err = nil THEN "Admitted" ELSE "Rejected",
                                           !.gen = r.generation, !.err = r.err,
                                           !.calls = r.calls, !.ret = r.ret])
         /\ pc' = [pc EXCEPT ![c] = IF r.err = nil THEN "inReq" ELSE "idle"]
         /\ tok' = [tok EXCEPT ![c] = IF r.err = nil THEN r.generation ELSE @]
         /\ ledger' = LedgerOf(IF r.err = nil THEN LedgerAdmit(ledger, r.generation)
                                 ELSE ledger, r.w)
  /\ UNCHANGED <<facade, now, spent>>

ExecuteReturn(c) ==
  /\ pc[c] = "inReq"
  /\ MutexFree
  /\ ReportOK
  /\ \E o \in OpReturns :
       LET r == ExecuteReturned(w, tok[c], o[1], o[2], now)
       IN  /\ Completes(r.w, [NoEvent EXCEPT !.ev = "Returned", !.gen = tok[c],
                                             !.out = <<"return", o[1], o[2]>>,
                                             !.ret = r.ret, !.reports = r.reports,
                                             !.calls = 1])
           /\ ledger' = LedgerOf(LedgerReport(ledger, tok[c], isSuccessful(w.cb, o[2])), r.w)
  /\ pc' = [pc EXCEPT ![c] = "idle"]
  /\ tok' = [tok EXCEPT ![c] = 0]
  /\ UNCHANGED <<facade, now, spent>>

ExecutePanic(c) ==
  /\ pc[c] = "inReq"
  /\ ReportOK
  /\ \E p \in PanicValues : \E e \in recoverValues(p) :
       LET r == ExecuteRecovered(w, tok[c], e, now)
       IN  /\ e # nil => MutexFree
           /\ Completes(r.w, [NoEvent EXCEPT !.ev = "Panicked", !.gen = tok[c],
                                             !.out = <<"panic", p>>,
                                             !.ret = r.ret, !.reports = r.reports,
                                             !.calls = 1])
           /\ ledger' = LedgerOf(IF r.reports = <<>>
                                  THEN LedgerIrregular(ledger, tok[c])
                                  ELSE LedgerReport(ledger, tok[c], FALSE), r.w)
  /\ pc' = [pc EXCEPT ![c] = "idle"]
  /\ tok' = [tok EXCEPT ![c] = 0]
  /\ UNCHANGED <<facade, now, spent>>

AllowCall(c) ==
  /\ facade = "TwoStepCircuitBreaker"
  /\ pc[c] = "idle"
  /\ MutexFree
  /\ AdmitOK
  /\ LET r == Allow(w, now)
     IN  /\ Completes(r.w, [NoEvent EXCEPT !.ev = IF r.err = nil THEN "Admitted" ELSE "Rejected",
                                           !.gen = r.generation, !.err = r.err])
         /\ pc' = [pc EXCEPT ![c] = IF r.err = nil THEN "allowed" ELSE "idle"]
         /\ tok' = [tok EXCEPT ![c] = IF r.err = nil THEN r.generation ELSE @]
         /\ spent' = [spent EXCEPT ![c] = IF r.err = nil THEN 0 ELSE @]
         /\ ledger' = LedgerOf(IF r.err = nil THEN LedgerAdmit(ledger, r.generation)
                                 ELSE ledger, r.w)
  /\ UNCHANGED <<facade, now>>

\* the callback is the caller's to call: once, or once more after it was called
DoneCall(c) ==
  /\ facade = "TwoStepCircuitBreaker"
  /\ pc[c] = "allowed" \/ (pc[c] = "idle" /\ spent[c] = 1)
  /\ MutexFree
  /\ ReportOK
  /\ \E success \in BOOLEAN :
       LET w2 == done(w, tok[c], success, now)
       IN  /\ Completes(w2, [NoEvent EXCEPT !.ev = "Done", !.gen = tok[c],
                                            !.reports = << <<tok[c], success>> >>])
           /\ ledger' = LedgerOf(IF spent[c] > 0
                                  THEN LedgerIrregular(LedgerReport(ledger, tok[c], success), tok[c])
                                  ELSE LedgerReport(ledger, tok[c], success), w2)
  /\ pc' = [pc EXCEPT ![c] = "idle"]
  /\ spent' = [spent EXCEPT ![c] = IF @ = 0 THEN 1 ELSE 0]
  /\ tok' = [tok EXCEPT ![c] = IF spent[c] = 0 THEN @ ELSE 0]
  /\ UNCHANGED <<facade, now>>

Next ==
  \/ Tick
  \/ State
  \/ Counts
  \/ \E c \in Callers : Execute(c)
  \/ \E c \in Callers : ExecuteReturn(c)
  \/ \E c \in Callers : ExecutePanic(c)
  \/ \E c \in Callers : AllowCall(c)
  \/ \E c \in Callers : DoneCall(c)

Spec == Init /\ [][Next]_vars


\* ---- the steps the properties speak of ----
\* caller c asks for admission (Execute's gate, or Allow)
Attempt(c) == Execute(c) \/ AllowCall(c)

\* caller c's call ends in the report step (or, for a recovered nil, in none)
Report(c) == ExecuteReturn(c) \/ ExecutePanic(c) \/ DoneCall(c)

\* the Closed window has run out, but no call has reconciled it yet
ClosedExpired == w.cb.state = StateClosed /\ w.cb.expiry # ZeroTime /\ w.cb.expiry < now

\* the Open timeout has run out, but no call has reconciled it yet
OpenExpired == w.cb.state = StateOpen /\ openedAt + w.cb.timeout < now

\* caller c reports with a token that is not the generation of the window current at
\* the time of the report: the window was superseded, or it has run out and the
\* report's own reconciliation supersedes it
StaleReport(c) ==
  /\ Report(c)
  /\ last'.reports # <<>>
  /\ \/ last'.reports[1][1] # w.cb.generation
     \/ ClosedExpired
     \/ OpenExpired

\* the number of admissions the callers were granted in the current window
AdmittedInWindow == IF ledger.gen = w.cb.generation THEN ledger.admitted ELSE 0

\* C1: while Closed, the failure report of the current generation that makes the trip
\* predicate true leaves the state Open, and from then on every admission attempt
\* (Execute or Allow) made no later than timeout after the trip is rejected with
\* ErrOpenState and leaves the breaker as it was.
C1_TripThenRejected ==
  [][\A c \in Callers :
       /\ ( /\ Report(c)
            /\ w.cb.state = StateClosed /\ ~ClosedExpired
            /\ last'.reports = << <<w.cb.generation, FALSE>> >>
            /\ readyToTrip(w.cb, countsOnFailure(w.cb.counts)) )
          => (w'.cb.state = StateOpen /\ openedAt' = now)
       /\ ( /\ Attempt(c)
            /\ w.cb.state = StateOpen
            /\ now <= openedAt + w.cb.timeout )
          => (last'.ev = "Rejected" /\ last'.err = ErrOpenState /\ w' = w)
    ]_vars

\* C1 witness: the default predicate tripped the first Closed window (6 failures in a
\* row), and an admission attempt was then rejected with ErrOpenState.
C1_Witness ==
  /\ facade = "CircuitBreaker" /\ w.cb.readyToTrip = "defaultReadyToTrip"
  /\ w.cb.state = StateOpen /\ w.cb.generation = 2
  /\ last.ev = "Rejected" /\ last.err = ErrOpenState
  /\ now <= openedAt + w.cb.timeout


\* C2: the first admission attempt made later than timeout after the change to Open
\* (whether the breaker is still to be reconciled, or State() or a stale report has
\* already brought it to HalfOpen) is admitted, the state is HalfOpen afterwards and
\* reads so, and the new window's Requests is 1.
C2_ProbeAfterTimeout ==
  [][/\ \A c \in Callers :
          ( /\ Attempt(c)
            /\ OpenExpired \/ (w.cb.state = StateHalfOpen /\ AdmittedInWindow = 0) )
          => /\ last'.ev = "Admitted" /\ last'.err = nil
             /\ last'.gen = w'.cb.generation
             /\ w'.cb.state = StateHalfOpen
             /\ w'.cb.counts = [ZeroCounts EXCEPT !.Requests = 1]
     /\ (State /\ (OpenExpired \/ w.cb.state = StateHalfOpen))
          => last'.state = StateHalfOpen
    ]_vars

\* C2 witness: an admission found the Open timeout over and became the first probe.
C2_Witness ==
  /\ last.ev = "Admitted" /\ last.gen = w.cb.generation
  /\ w.cb.state = StateHalfOpen /\ w.cb.counts.Requests = 1
  /\ w.cb.generation = 3 /\ w.cb.interval = 0
  /\ now > w.cb.timeout + 1

\* C3: in a HalfOpen window an admission attempt is admitted exactly when fewer than
\* maxRequests attempts of that window were admitted before it, and is otherwise
\* rejected with ErrTooManyRequests, outstanding probes or not; Requests never
\* exceeds maxRequests while HalfOpen.
C3_HalfOpenQuota ==
  [][/\ \A c \in Callers :
          (Attempt(c) /\ w.cb.state = StateHalfOpen)
          => IF AdmittedInWindow < w.cb.maxRequests
             THEN /\ last'.ev = "Admitted" /\ last'.err = nil
                  /\ w'.cb.state = StateHalfOpen
                  /\ w'.cb.counts.Requests = AdmittedInWindow + 1
             ELSE /\ last'.ev = "Rejected" /\ last'.err = ErrTooManyRequests
                  /\ w' = w
     /\ w'.cb.state = StateHalfOpen => w'.cb.counts.Requests <= w'.cb.maxRequests
    ]_vars

\* C3 witness: maxRequests = 2, both probes admitted, one of them still outstanding,
\* and a third attempt rejected with ErrTooManyRequests.
C3_Witness ==
  /\ w.cb.state = StateHalfOpen /\ w.cb.maxRequests = 2
  /\ w.cb.counts.Requests = 2 /\ AdmittedInWindow = 2
  /\ last.ev = "Rejected" /\ last.err = ErrTooManyRequests
  /\ \E c \in Callers : pc[c] # "idle" /\ tok[c] = w.cb.generation

\* C4: while HalfOpen, a success report of the current window that brings
\* ConsecutiveSuccesses to maxRequests leaves the breaker Closed with all counts
\* zero, a success that leaves it below maxRequests leaves it HalfOpen with the
\* success counted, and a failure report of the current window leaves it Open with
\* all counts zero.
C4_HalfOpenOutcome ==
  [][\A c \in Callers : \A ok \in BOOLEAN :
       ( /\ Report(c)
         /\ w.cb.state = StateHalfOpen
         /\ last'.reports = << <<w.cb.generation, ok>> >> )
       => IF ~ok
          THEN w'.cb.state = StateOpen /\ w'.cb.counts = ZeroCounts
          ELSE IF w.cb.counts.ConsecutiveSuccesses + 1 = w.cb.maxRequests
               THEN w'.cb.state = StateClosed /\ w'.cb.counts = ZeroCounts
               ELSE /\ w.cb.counts.ConsecutiveSuccesses + 1 < w.cb.maxRequests
                    /\ w'.cb.state = StateHalfOpen
                    /\ w'.cb.counts = countsOnSuccess(w.cb.counts)
    ]_vars

\* C4 witness: with maxRequests = 2 the second success in a row of a HalfOpen window
\* (generation 3) closed the breaker.
C4_Witness ==
  /\ w.cb.maxRequests = 2 /\ w.cb.interval = 0
  /\ w.cb.state = StateClosed /\ w.cb.generation = 4 /\ w.cb.counts = ZeroCounts
  /\ last.ev \in {"Returned", "Done"} /\ last.reports = << <<3, TRUE>> >>

\* C5: a report whose token is not the generation of the window current at the time
\* of the report (the window was superseded, or has run out and the report's own
\* reconciliation supersedes it) is discarded: the counts afterwards are those of
\* the reconciled window, untouched by the report, and the report neither trips the
\* breaker to Open nor recovers it to Closed; with nothing to reconcile, the breaker
\* and the notifications are exactly as before.
C5_StaleReportDiscarded ==
  [][\A c \in Callers :
       StaleReport(c)
       => /\ w'.cb.counts = IF ClosedExpired \/ OpenExpired THEN ZeroCounts ELSE w.cb.counts
          /\ w'.cb.state = StateOpen => w.cb.state = StateOpen
          /\ w'.cb.state = StateClosed => w.cb.state = StateClosed
          /\ ~(ClosedExpired \/ OpenExpired) => w' = w
    ]_vars

\* C5 witness: a report with the token of an earlier window arrived in a window that
\* has requests counted, and left them as they were.
C5_Witness ==
  /\ last.ev \in {"Returned", "Panicked", "Done"} /\ last.reports # <<>>
  /\ last.gen < w.cb.generation
  /\ w.cb.counts.Requests > 0
  /\ w.cb.counts.TotalSuccesses + w.cb.counts.TotalFailures = 0


\* C6: while Closed with a nonzero interval, once the clock is past the end of the
\* window, Counts() returns all zeros, whatever was counted and without any other
\* call in between.
C6_CountsClearedAtBoundary ==
  [][(Counts /\ ClosedExpired) => last'.counts = ZeroCounts]_vars

\* the callers hold no admission of the current window that is still to be reported
NoneOutstanding ==
  \A c \in Callers : pc[c] = "idle" \/ tok[c] # w.cb.generation

\* C7: in a Closed window, under every interleaving of the callers' admissions and
\* reports, Requests is the number of admissions granted in the window and
\* TotalSuccesses and TotalFailures are the numbers of success and failure reports
\* made for it; once every admitted caller has reported exactly once,
\* TotalSuccesses + TotalFailures = Requests.
C7_NoLostUpdates ==
  (w.cb.state = StateClosed /\ ledger.gen = w.cb.generation)
  => /\ w.cb.counts.Requests = ledger.admitted
     /\ w.cb.counts.TotalSuccesses = ledger.successes
     /\ w.cb.counts.TotalFailures = ledger.failures
     /\ (NoneOutstanding /\ ~ledger.irregular)
        => w.cb.counts.TotalSuccesses + w.cb.counts.TotalFailures = w.cb.counts.Requests

\* C7 witness: three admissions of one Closed window, all reported once, successes
\* and failures among them, and the window still current.
C7_Witness ==
  /\ w.cb.state = StateClosed /\ ledger.gen = w.cb.generation
  /\ NoneOutstanding /\ ~ledger.irregular
  /\ ledger.admitted = 3 /\ ledger.successes = 2 /\ ledger.failures = 1
  /\ w.cb.counts.Requests = 3

\* C8: an Execute that the gate rejects returns (nil, ErrOpenState) or
\* (nil, ErrTooManyRequests), has not run the operation and has made no report; an
\* Execute that the gate admits runs the operation once, and when the operation
\* returns (result, err) it has made exactly one report, with the admitted
\* generation and IsSuccessful(err), and returns (result, err).
C8_ExecuteGate ==
  facade = "CircuitBreaker" =>
    /\ last.ev = "Rejected" =>
         /\ last.err \in {ErrOpenState, ErrTooManyRequests}
         /\ last.calls = 0 /\ last.reports = <<>>
         /\ last.ret = <<"return", nil, last.err>>
    /\ last.ev = "Admitted" => (last.err = nil /\ last.calls = 1 /\ last.reports = <<>>)
    /\ last.ev = "Returned" =>
         /\ last.calls = 1
         /\ last.reports = << <<last.gen, isSuccessful(w.cb, last.out[3])>> >>
         /\ last.ret = last.out

\* C8 witness: an admitted Execute whose operation returned an error that the custom
\* IsSuccessful counts as a success, reported and returned as such.
C8_Witness ==
  /\ facade = "CircuitBreaker" /\ last.ev = "Returned"
  /\ w.cb.isSuccessful = "customIsSuccessful"
  /\ last.out = <<"return", "r1", "errSoft">> /\ last.ret = last.out
  /\ last.reports = << <<last.gen, TRUE>> >>
  /\ w.cb.counts.TotalSuccesses = 1

\* C9: when the operation inside Execute panics, Execute has reported a failure for
\* the admitted generation, and the panic reaches the caller.
C9_PanicCountsAsFailure ==
  last.ev = "Panicked" =>
    /\ last.reports = << <<last.gen, FALSE>> >>
    /\ last.ret # <<>> /\ last.ret[1] = "panic"

\* the onStateChange calls made so far chain: each goes from the state the one
\* before it went to, the first from Closed, the last to the current state
SinkChains ==
  /\ \A i \in 1..Len(w.sink) :
       /\ w.sink[i][1] = w.cb.name
       /\ w.sink[i][2] # w.sink[i][3]
       /\ w.sink[i][2] = IF i = 1 THEN StateClosed ELSE w.sink[i-1][3]
  /\ w.cb.state = IF w.sink = <<>> THEN StateClosed ELSE w.sink[Len(w.sink)][3]

\* a step in which the state value changes calls onStateChange once, with
\* (name, previous, new); any other step does not call it
NotifiedOncePerChange ==
  IF w'.cb.state # w.cb.state
  THEN w'.sink = Append(w.sink, <<w.cb.name, w.cb.state, w'.cb.state>>)
  ELSE w'.sink = w.sink

\* C10 as stated: one call per change of the state value, chained from Closed, and
\* no call at construction, on a periodic reset, on an admission, on a rejection or
\* on a discarded report.
C10_NotifyOriginal ==
  [][w.cb.onStateChange # "nil" =>
       /\ NotifiedOncePerChange
       /\ SinkChains /\ SinkChains'
       /\ ClosedExpired => w'.sink = w.sink
       /\ \A c \in Callers : Attempt(c) => w'.sink = w.sink
       /\ \A c \in Callers : StaleReport(c) => w'.sink = w.sink
    ]_vars

\* C10 as amended: one call per change of the state value, chained from Closed; no
\* call at construction, on a periodic reset or on a rejection; a call during an
\* admission or a discarded report only when that call's reconciliation moves the
\* expired Open state to HalfOpen.
C10_NotifyOnChange ==
  /\ [](w.cb.onStateChange # "nil" => SinkChains)
  /\ [](w.cb.onStateChange = "nil" => w.sink = <<>>)
  /\ [][w.cb.onStateChange # "nil" =>
          /\ NotifiedOncePerChange
          /\ ClosedExpired => w'.sink = w.sink
          /\ \A c \in Callers :
               (Attempt(c) /\ w'.sink # w.sink)
               => /\ OpenExpired /\ last'.ev = "Admitted"
                  /\ w'.sink = Append(w.sink, <<w.cb.name, StateOpen, StateHalfOpen>>)
          /\ \A c \in Callers :
               (StaleReport(c) /\ w'.sink # w.sink)
               => /\ OpenExpired
                  /\ w'.sink = Append(w.sink, <<w.cb.name, StateOpen, StateHalfOpen>>)
       ]_vars

\* C10 witness: a full round Closed, Open, HalfOpen, Closed was notified, in three
\* calls, the last of them during the report of a returned Execute.
C10_Witness ==
  /\ w.cb.onStateChange # "nil"
  /\ w.sink = << <<w.cb.name, StateClosed, StateOpen>>,
                 <<w.cb.name, StateOpen, StateHalfOpen>>,
                 <<w.cb.name, StateHalfOpen, StateClosed>> >>
  /\ last.ev = "Returned"

\* C11: in whatever state, as long as every admission of the current window was
\* reported exactly once (no report skipped, no callback called twice), whenever the
\* callers hold no admission of the current window that is still to be reported,
\* TotalSuccesses + TotalFailures = Requests.
C11_ReportsBalanceRequests ==
  (NoneOutstanding /\ ~(ledger.gen = w.cb.generation /\ ledger.irregular))
  => w.cb.counts.TotalSuccesses + w.cb.counts.TotalFailures = w.cb.counts.Requests

\* C11 witness: after a trip and the timeout, a HalfOpen window (maxRequests = 2) has
\* admitted one probe, the probe has reported its success, and nothing is outstanding.
C11_Witness ==
  /\ w.cb.state = StateHalfOpen /\ w.cb.generation = 3
  /\ NoneOutstanding /\ ledger.gen = w.cb.generation /\ ~ledger.irregular
  /\ ledger.admitted = 1 /\ ledger.successes = 1
  /\ w.cb.counts.Requests = 1 /\ w.cb.counts.TotalSuccesses = 1

\* ---- a breaker made from the empty Settings{}, on a clock that counts seconds ----
EmptySettings ==
  [Name |-> "", MaxRequests |-> 0, Interval |-> 0, Timeout |-> 0,
   ReadyToTrip |-> "nil", OnStateChange |-> "nil", IsSuccessful |-> "nil"]

\* how long the callers let pass between calls, and how far the clock runs
SleepSeconds == {60, 61}
MaxSeconds == 123

InitDefault ==
  /\ facade = "CircuitBreaker"
  /\ now = 1
  /\ w = [cb |-> NewCircuitBreaker(EmptySettings, 1), sink |-> <<>>]
  /\ pc = [c \in Callers |-> "idle"]
  /\ tok = [c \in Callers |-> 0]
  /\ spent = [c \in Callers |-> 0]
  /\ last = NoEvent
  /\ openedAt = 0
  /\ ledger = NoLedger

Sleep ==
  /\ \E d \in SleepSeconds : now + d <= MaxSeconds /\ now' = now + d
  /\ UNCHANGED <<facade, w, pc, tok, spent, last, openedAt, ledger>>

NextDefault ==
  \/ Sleep
  \/ State
  \/ Counts
  \/ \E c \in Callers : Execute(c)
  \/ \E c \in Callers : ExecuteReturn(c)
  \/ \E c \in Callers : ExecutePanic(c)

SpecDefault == InitDefault /\ [][NextDefault]_vars

\* C12: a breaker made with empty settings has maxRequests 1, interval 0 (no Closed
\* expiry), timeout 60 s and trips when a failure makes more than 5 in a row: a
\* failed execution that makes 5 or fewer in a row leaves it Closed, the one that
\* makes the 6th leaves it Open; a call at the second of the trip is rejected with
\* ErrOpenState; a call 61 s after the trip is admitted and leaves the state
\* HalfOpen; a success reported for that single probe leaves the breaker Closed with
\* all counts zero.
C12_EmptySettingsScenario ==
  /\ [](/\ w.cb.maxRequests = 1 /\ w.cb.interval = 0 /\ w.cb.timeout = 60
        /\ w.cb.state = StateClosed => w.cb.expiry = ZeroTime)
  /\ [][\A c \in Callers :
          /\ ( /\ Report(c) /\ w.cb.state = StateClosed
               /\ last'.reports = << <<w.cb.generation, FALSE>> >> )
             => IF w.cb.counts.ConsecutiveFailures + 1 <= 5
                THEN /\ w'.cb.state = StateClosed
                     /\ w'.cb.counts.ConsecutiveFailures = w.cb.counts.ConsecutiveFailures + 1
                ELSE w'.cb.state = StateOpen /\ openedAt' = now
          /\ (Attempt(c) /\ w.cb.state = StateOpen /\ now = openedAt)
             => (last'.ev = "Rejected" /\ last'.err = ErrOpenState /\ w'.cb.state = StateOpen)
          /\ (Attempt(c) /\ w.cb.state = StateOpen /\ now = openedAt + 61)
             => (last'.ev = "Admitted" /\ last'.err = nil /\ w'.cb.state = StateHalfOpen)
          /\ ( /\ Report(c) /\ w.cb.state = StateHalfOpen
               /\ last'.reports = << <<w.cb.generation, TRUE>> >> )
             => (w'.cb.state = StateClosed /\ w'.cb.counts = ZeroCounts)
       ]_vars

\* C12 witness: the whole scenario has run: tripped at second 1 by the 6th failure in
\* a row of the first window, probed at second 62, and closed by the probe's success.
C12_Witness ==
  /\ w.cb.timeout = 60 /\ w.cb.maxRequests = 1 /\ now = 62
  /\ w.cb.state = StateClosed /\ w.cb.generation = 4 /\ w.cb.counts = ZeroCounts
  /\ last.ev = "Returned" /\ last.reports = << <<3, TRUE>> >>

\* C13: with interval zero the Closed state has the zero expiry, and from a Closed
\* state a clock advance, State() or Counts() leaves the breaker as it is; any step
\* that leaves it Closed keeps the generation and lowers none of Requests,
\* TotalSuccesses, TotalFailures; the only way out of Closed is the trip to Open.
C13_NoExpiryWithoutInterval ==
  /\ []((w.cb.interval = 0 /\ w.cb.state = StateClosed) => w.cb.expiry = ZeroTime)
  /\ [][(w.cb.interval = 0 /\ w.cb.state = StateClosed) =>
          /\ (Tick \/ State \/ Counts) => w' = w
          /\ w'.cb.state # StateClosed => w'.cb.state = StateOpen
          /\ w'.cb.state = StateClosed =>
               /\ w'.cb.generation = w.cb.generation
               /\ w'.cb.counts.Requests >= w.cb.counts.Requests
               /\ w'.cb.counts.TotalSuccesses >= w.cb.counts.TotalSuccesses
               /\ w'.cb.counts.TotalFailures >= w.cb.counts.TotalFailures
       ]_vars

\* C13 witness: with interval zero the first window is still the current one at the
\* end of the clock's run, read by State(), with everything counted since second 1.
C13_Witness ==
  /\ w.cb.interval = 0 /\ w.cb.state = StateClosed /\ w.cb.generation = 1
  /\ now >= 4 /\ last.ev = "State" /\ last.state = StateClosed
  /\ w.cb.counts.Requests = 3 /\ w.cb.counts.TotalFailures = 1
  /\ w.cb.counts.TotalSuccesses = 2

\* C14: whenever a caller is inside its guarded operation (or holds an uncalled done
\* callback), the mutex is not held, and the calls of everyone else can complete:
\* State() and Counts(), an admission attempt of any idle caller, and the report of
\* any other caller that was admitted.
C14_LockFreeWhileOperationRuns ==
  \A c \in Callers :
    pc[c] \in {"inReq", "allowed"} =>
      /\ w.cb.mutex = "unlocked"
      /\ GenOK => (ENABLED State /\ ENABLED Counts)
      /\ \A d \in Callers \ {c} :
           /\ (pc[d] = "idle" /\ AdmitOK) => ENABLED Attempt(d)
           /\ (pc[d] # "idle" /\ ReportOK) => ENABLED Report(d)

\* C14 witness: c1 is still inside the operation it was admitted to in the first
\* window, while the other caller has since been admitted in the third window and
\* has reported.
C14_Witness ==
  /\ pc["c1"] = "inReq" /\ tok["c1"] = 1
  /\ w.cb.generation = 3 /\ w.cb.mutex = "unlocked"
  /\ last.ev = "Returned" /\ last.gen = 3

\* C15: in every reachable state ConsecutiveSuccesses and ConsecutiveFailures are not
\* both nonzero.
C15_OneRunAtATime ==
  w.cb.counts.ConsecutiveSuccesses = 0 \/ w.cb.counts.ConsecutiveFailures = 0

\* C15 witness: a window that counted a failure and then two successes in a row: the
\* run of failures was reset by the first success.
C15_Witness ==
  /\ w.cb.counts.TotalFailures = 1 /\ w.cb.counts.TotalSuccesses = 2
  /\ w.cb.counts.ConsecutiveSuccesses = 2 /\ w.cb.counts.ConsecutiveFailures = 0
  /\ last.reports # <<>> /\ last.reports[1][2] = TRUE

\* the step is a call that reconciles the breaker with the clock before anything else
Reconciles ==
  \/ State
  \/ \E c \in Callers : Attempt(c)
  \/ \E c \in Callers : Report(c) /\ last'.reports # <<>>

\* C16: no caller holds a token above the generation; a step leaves the generation
\* as it is or adds exactly one to it, and it adds one exactly when the state value
\* changes or the call reconciles an expired Closed window; the reconciliation of an
\* expired window leaves all five counts zero, and so does every step that raises
\* the generation, but for the one request an admission counts after it.
C16_GenerationSteps ==
  /\ [](\A c \in Callers : tok[c] <= w.cb.generation)
  /\ [](LET w1 == currentState(w, now)
        IN  w1.cb.generation # w.cb.generation
            => (w1.cb.generation = w.cb.generation + 1 /\ w1.cb.counts = ZeroCounts))
  /\ [][/\ w'.cb.generation \in {w.cb.generation, w.cb.generation + 1}
        /\ w'.cb.generation = w.cb.generation + 1
             <=> (w'.cb.state # w.cb.state \/ (ClosedExpired /\ Reconciles))
        /\ w'.cb.generation = w.cb.generation + 1
             => \/ w'.cb.counts = ZeroCounts
                \/ /\ \E c \in Callers : Attempt(c)
                   /\ last'.ev = "Admitted"
                   /\ w'.cb.counts = countsOnRequest(ZeroCounts)
       ]_vars

\* C16 witness: a periodic reset with no state change: an admission found the first
\* Closed window over and opened the second, while another caller still holds the
\* token of the first.
C16_Witness ==
  /\ w.cb.interval = 2 /\ w.cb.state = StateClosed /\ w.sink = <<>>
  /\ w.cb.generation = 2 /\ w.cb.counts = countsOnRequest(ZeroCounts)
  /\ last.ev = "Admitted" /\ last.gen = 2
  /\ \E c \in Callers : pc[c] # "idle" /\ tok[c] = 1

\* the state changes a step may make
Transitions ==
  { <<StateClosed, StateOpen>>, <<StateOpen, StateHalfOpen>>,
    <<StateHalfOpen, StateClosed>>, <<StateHalfOpen, StateOpen>> }

\* C17: a step that changes the state value makes one of the four changes Closed to
\* Open, Open to HalfOpen, HalfOpen to Closed, HalfOpen to Open; a step from Open to
\* HalfOpen is a State(), an admission attempt or a report made with the clock past
\* the Open timeout, and leaves exactly what the reconciliation of that call leaves
\* (plus, for the admission, its own request): a report that makes it is discarded.
C17_TransitionsAllowed ==
  [][w'.cb.state # w.cb.state =>
       /\ <<w.cb.state, w'.cb.state>> \in Transitions
       /\ (w.cb.state = StateOpen /\ w'.cb.state = StateHalfOpen) =>
            /\ OpenExpired /\ w.cb.expiry < now
            /\ Reconciles
            /\ \A c \in Callers :
                 Report(c) => (StaleReport(c) /\ w' = StateOf(w, now).w)
            /\ \A c \in Callers :
                 Attempt(c) => /\ last'.ev = "Admitted"
                               /\ w'.cb.counts = countsOnRequest(ZeroCounts)
            /\ State => w' = StateOf(w, now).w
    ]_vars

\* C17 witness: a report carrying the token of the first window arrived after the
\* Open timeout; its reconciliation made the breaker HalfOpen and the report itself
\* was discarded.
C17_Witness ==
  /\ last.ev \in {"Returned", "Done"} /\ last.gen = 1 /\ last.reports # <<>>
  /\ w.cb.state = StateHalfOpen /\ w.cb.generation = 3 /\ w.cb.counts = ZeroCounts

\* C18: a HalfOpen breaker has the zero expiry; from a HalfOpen state a clock advance,
\* State() or Counts() leaves the breaker as it is, an admission attempt made when
\* maxRequests probes were admitted is rejected with ErrTooManyRequests and leaves it
\* as it is, at any later clock reading, and the only step that leaves HalfOpen is a
\* report carrying the token of the HalfOpen window.
C18_HalfOpenOutlastsTheClock ==
  /\ [](w.cb.state = StateHalfOpen => w.cb.expiry = ZeroTime)
  /\ [][w.cb.state = StateHalfOpen =>
          /\ (Tick \/ State \/ Counts) => w' = w
          /\ State => last'.state = StateHalfOpen
          /\ \A c \in Callers :
               (Attempt(c) /\ AdmittedInWindow = w.cb.maxRequests)
               => (last'.ev = "Rejected" /\ last'.err = ErrTooManyRequests /\ w' = w)
          /\ \A c \in Callers :
               (Attempt(c) /\ last'.ev = "Rejected")
               => (w'.cb.state = StateHalfOpen /\ w'.cb.generation = w.cb.generation)
          /\ w'.cb.state # StateHalfOpen
               => \E c \in Callers :
                    Report(c) /\ last'.reports # <<>>
                              /\ last'.reports[1][1] = w.cb.generation
       ]_vars

\* C18 witness: maxRequests = 1, the single probe of the HalfOpen window is still
\* unreported at the end of the clock's run, and another caller's attempt was just
\* rejected with ErrTooManyRequests.
C18_Witness ==
  /\ w.cb.state = StateHalfOpen /\ w.cb.maxRequests = 1 /\ now >= 4
  /\ w.cb.counts = countsOnRequest(ZeroCounts)
  /\ \E c \in Callers : pc[c] # "idle" /\ tok[c] = w.cb.generation
  /\ last.ev = "Rejected" /\ last.err = ErrTooManyRequests

\* C19: an admission attempt (Execute's gate or Allow) that ends in ErrOpenState or
\* ErrTooManyRequests leaves the state, the generation, the five counts and the
\* expiry as they were and calls onStateChange not at all; beforeRequest itself
\* returns the breaker it was given whenever it returns an error.
C19_RejectionChangesNothing ==
  /\ [](LET r == beforeRequest(w, now)
        IN  r.err # nil => (r.err \in {ErrOpenState, ErrTooManyRequests} /\ r.w = w))
  /\ [][\A c \in Callers :
          (Attempt(c) /\ last'.err \in {ErrOpenState, ErrTooManyRequests})
          => /\ w'.cb.state = w.cb.state
             /\ w'.cb.generation = w.cb.generation
             /\ w'.cb.counts = w.cb.counts
             /\ w'.cb.expiry = w.cb.expiry
             /\ w'.sink = w.sink
             /\ UNCHANGED <<pc, tok, ledger>>
       ]_vars

\* C19 witness: a breaker with a notification callback, Open and within its timeout,
\* has just rejected an Allow; the one notification so far is that of the trip.
C19_Witness ==
  /\ facade = "TwoStepCircuitBreaker" /\ w.cb.onStateChange # "nil"
  /\ w.cb.state = StateOpen /\ now <= openedAt + w.cb.timeout
  /\ last.ev = "Rejected" /\ last.err = ErrOpenState
  /\ Len(w.sink) = 1

\* C20: in every reachable state whose state is Open all five counts are zero and no
\* token a caller can still report with equals the generation; and while the Open
\* timeout has not run out, a report with any such token, success or failure, leaves
\* the breaker exactly as it is.
C20_NothingAppliedWhileOpen ==
  w.cb.state = StateOpen =>
    /\ w.cb.counts = ZeroCounts
    /\ \A c \in Callers : tok[c] # w.cb.generation
    /\ now <= openedAt + w.cb.timeout =>
         \A c \in Callers : \A success \in BOOLEAN :
           (pc[c] # "idle" \/ spent[c] = 1) => afterRequest(w, tok[c], success, now) = w

\* C20 witness: a caller admitted in the first window returned with a success after
\* the others' failures had tripped the breaker; the breaker is Open as before, with
\* nothing counted.
C20_Witness ==
  /\ w.cb.state = StateOpen /\ w.cb.generation = 2 /\ w.cb.counts = ZeroCounts
  /\ now <= openedAt + w.cb.timeout
  /\ last.ev = "Returned" /\ last.reports = << <<1, TRUE>> >>

====
